---- MODULE Spec2Model ----
(***************************************************************************)
(* gdal2mbtiles: the parallel tile builder of src/gdal2mbtiles.py.         *)
(*                                                                         *)
(* One run of main() is modelled as a parent process (pc), the metadata    *)
(* child, and the tile workers it starts phase by phase; the archive is    *)
(* the SQLite file shared by all of them.  A command can be issued again   *)
(* on the same archive (Rerun), which is how resume mode meets an archive  *)
(* that an earlier run left behind.                                        *)
(*                                                                         *)
(* Lengths are in model units in which the Mercator world is               *)
(* [-originShift, originShift]; coordinates that the code holds as floats  *)
(* are exact rationals <<numerator, denominator>> here.                    *)
(***************************************************************************)
EXTENDS Integers, Sequences, FiniteSets, Bags, TLC

(***************************************************************************)
(* Bounds of the model.                                                    *)
(***************************************************************************)
MaxZoom == 2      \* zoom levels 0..MaxZoom of the per-zoom table are modelled
MaxProcs == 2     \* --processes is 1 or MaxProcs
MaxTiles == 4     \* inputs are kept to at most MaxTiles base tiles
MaxRuns == 2      \* the command is issued at most MaxRuns times on one archive
MaxFailures == 1  \* environment failures (raster read, resampling) on one archive
MaxZoomArg == 33  \* --zoom MIN-MAX is studied for MIN, MAX in 0..MaxZoomArg
MaxPlanZoom == 10 \* the planner functions are studied at zooms 0..MaxPlanZoom
MaxShift == 37    \* pixel sizes are studied down to 2^-MaxShift
MaxCoord == 8     \* query corners are studied at -MaxCoord/4 .. MaxCoord/4
MaxParent == 7    \* overview placement is studied for parents (0..MaxParent)^2
MaxOrigin == 6    \* raster origins are studied at -MaxOrigin .. MaxOrigin

(***************************************************************************)
(* Program constants.                                                      *)
(***************************************************************************)
tilesize == 256
MAXZOOMLEVEL == 32
originShift == 4  \* 20037508.34 m in the code; the model's unit is 1/4 of it

\* Python's None in an integer-valued field (tminz, tmaxz, a zoom result)
None == 0 - 1

(***************************************************************************)
(* Integer helpers.                                                        *)
(***************************************************************************)
Pow2(n) == 2 ^ n

Max(a, b) == IF a >= b THEN a ELSE b

Min(a, b) == IF a <= b THEN a ELSE b

\* math.ceil(n / d) for d > 0
Ceil(n, d) == -((-n) \div d)

(***************************************************************************)
(* GlobalMercator, on rationals.                                           *)
(***************************************************************************)
\* a resolution that falls linearly with the zoom
ResolutionLinear(zoom) == <<2 * originShift, tilesize * (zoom + 1)>>

\* Resolution(zoom) = initialResolution / 2^zoom, with
\* initialResolution = 2 * originShift / tileSize
Resolution(zoom) == <<2 * originShift, tilesize * Pow2(zoom)>>

\* MetersToPixels for one coordinate m = <<num, den>>:
\* (m + originShift) / Resolution(zoom)
MetersToPixels(m, zoom) ==
    LET res == Resolution(zoom)
    IN  <<(m[1] + originShift * m[2]) * res[2], m[2] * res[1]>>

\* PixelsToTile for one coordinate: int(ceil(p / tileSize) - 1)
PixelsToTile(p) == Ceil(p[1], p[2] * tilesize) - 1

MetersToTile(m, zoom) == PixelsToTile(MetersToPixels(m, zoom))

\* PixelsToMeters / TileBounds for one coordinate: the lower edge of tile t
TileBoundsMin(t, zoom) ==
    LET res == Resolution(zoom)
    IN  <<t * tilesize * res[1] - originShift * res[2], res[2]>>

\* A pixel size is <<n, d>> for n / d, or <<n, d, s>> for n / (d * 2^s).
Shift(pixelSize) == IF Len(pixelSize) = 3 THEN pixelSize[3] ELSE 0

RECURSIVE ScaledGreater(_, _, _)
\* a * 2^k > b for naturals a, b and an integer k, without forming 2^k
ScaledGreater(a, b, k) ==
    IF k = 0 THEN a > b
    ELSE IF k > 0 THEN ScaledGreater(a, b \div 2, k - 1)
    ELSE ScaledGreater(Ceil(a, 2), b, k + 1)

\* pixelSize > self.Resolution(zoom)
ExceedsResolution(pixelSize, zoom) ==
    ScaledGreater(pixelSize[1] * tilesize, 2 * originShift * pixelSize[2],
                  zoom - Shift(pixelSize))

RECURSIVE ZoomSearch(_, _)
\* the loop of ZoomForPixelSize from index i on
ZoomSearch(pixelSize, i) ==
    IF i >= MAXZOOMLEVEL THEN None
    ELSE IF ExceedsResolution(pixelSize, i)
         THEN (IF i # 0 THEN i - 1 ELSE 0)
         ELSE ZoomSearch(pixelSize, i + 1)

ZoomForPixelSize(pixelSize) == ZoomSearch(pixelSize, 0)

(***************************************************************************)
(* Inputs: the projected raster and the command line.                      *)
(***************************************************************************)
\* out_gt[0], out_gt[3] (origin), out_gt[1] (pixel size), RasterXSize, RasterYSize
World ==
    [gt0 |-> 0 - originShift, gt3 |-> originShift, px |-> <<1, 64>>,
     xsize |-> 512, ysize |-> 512]

\* a raster inside the north-east quadrant of the world
Quadrant == [gt0 |-> 1, gt3 |-> 3, px |-> <<1, 128>>, xsize |-> 256, ysize |-> 256]

\* a raster across the centre of the world
Centre == [gt0 |-> 0 - 1, gt3 |-> 1, px |-> <<1, 128>>, xsize |-> 256, ysize |-> 256]

\* a raster whose east and north edges lie beyond the world extent
Edge == [gt0 |-> 3, gt3 |-> 5, px |-> <<1, 128>>, xsize |-> 256, ysize |-> 256]

\* a raster wholly beyond the world extent
Outside == [gt0 |-> 5, gt3 |-> 7, px |-> <<1, 128>>, xsize |-> 256, ysize |-> 256]

Rasters == {World, Quadrant, Centre, Edge, Outside}

\* --zoom: not given, or MIN-MAX
ZoomOptions ==
    {[given |-> FALSE, min |-> None, max |-> None]} \cup
    {z \in [given : {TRUE}, min : 0..MaxZoom, max : 0..MaxZoom] : z.min <= z.max}

Options ==
    [resume : BOOLEAN, output_cache : {"xyz", "tms"},
     resampling : {"average", "antialias"}, verbose : BOOLEAN,
     zoom : ZoomOptions, processes : {1, MaxProcs}, webviewer : {"all", "none"}]

(***************************************************************************)
(* GDAL2Mbtiles.__init__ and open_input: zoom range and per-zoom ranges.   *)
(***************************************************************************)
\* self.tminz / self.tmaxz as __init__ leaves them
InitTminz(o) == IF o.zoom.given THEN o.zoom.min ELSE None

InitTmaxz(o) == IF o.zoom.given THEN o.zoom.max ELSE None

ominx(r) == <<r.gt0 * r.px[2], r.px[2]>>

omaxx(r) == <<r.gt0 * r.px[2] + r.xsize * r.px[1], r.px[2]>>

omaxy(r) == <<r.gt3 * r.px[2], r.px[2]>>

ominy(r) == <<r.gt3 * r.px[2] - r.ysize * r.px[1], r.px[2]>>

\* the tile range without the two lines that crop it to the world
tminmaxUncropped(r, tz) ==
    <<MetersToTile(ominx(r), tz), MetersToTile(ominy(r), tz),
      MetersToTile(omaxx(r), tz), MetersToTile(omaxy(r), tz)>>

\* self.tminmax[tz] of the mercator profile: <<tminx, tminy, tmaxx, tmaxy>>
tminmax(r, tz) ==
    <<Max(0, MetersToTile(ominx(r), tz)),
      Max(0, MetersToTile(ominy(r), tz)),
      Min(Pow2(tz) - 1, MetersToTile(omaxx(r), tz)),
      Min(Pow2(tz) - 1, MetersToTile(omaxy(r), tz))>>

\* GlobalGeodetic.LatLonToTile for one coordinate c, half being the half
\* extent of the world along that axis (180 for the first argument, 90 for
\* the second; in model units originShift and originShift / 2):
\* res = 180 / tileSize / 2^zoom is originShift / (tilesize * 2^zoom)
LatLonToTile(c, half, zoom) ==
    PixelsToTile(<<(c[1] + half * c[2]) * tilesize * Pow2(zoom), c[2] * originShift>>)

\* self.tminmax[tz] of the geodetic profile
tminmaxGeodetic(r, tz) ==
    <<Max(0, LatLonToTile(ominx(r), originShift, tz)),
      Max(0, LatLonToTile(ominy(r), originShift \div 2, tz)),
      Min(Pow2(tz + 1) - 1, LatLonToTile(omaxx(r), originShift, tz)),
      Min(Pow2(tz) - 1, LatLonToTile(omaxy(r), originShift \div 2, tz))>>

\* self.tminz after open_input
OpenTminz(r, o) ==
    IF InitTminz(o) = None
    THEN ZoomForPixelSize(<<r.px[1] * Max(r.xsize, r.ysize), r.px[2] * tilesize,
                            Shift(r.px)>>)
    ELSE InitTminz(o)

\* self.tmaxz after open_input
OpenTmaxz(r, o) ==
    IF InitTmaxz(o) = None THEN ZoomForPixelSize(r.px) ELSE InitTmaxz(o)

(***************************************************************************)
(* The canonical tile enumeration and its round-robin partition.           *)
(***************************************************************************)
RangeWidth(rg) == Max(0, rg[3] - rg[1] + 1)

RangeHeight(rg) == Max(0, rg[4] - rg[2] + 1)

\* number of iterations of the two nested loops over the range rg
LoopCount(rg) == RangeWidth(rg) * RangeHeight(rg)

\* the tile <<tx, ty>> visited by iteration ti (1-based):
\* ty from tmaxy down to tminy, tx from tminx up to tmaxx
LoopTile(rg, ti) ==
    <<rg[1] + ((ti - 1) % RangeWidth(rg)), rg[4] - ((ti - 1) \div RangeWidth(rg))>>

InRange(rg, x, y) == x >= rg[1] /\ x <= rg[3] /\ y >= rg[2] /\ y <= rg[4]

\* the negation of "if (ti - 1) % self.options.processes != cpu: continue"
Claims(ti, cpu, processes) == (ti - 1) % processes = cpu

\* the next iteration after ti that worker cpu does not skip, 0 if there is none
NextClaimed(ti, cpu, processes, count) ==
    LET later == {j \in (ti + 1)..count : Claims(j, cpu, processes)}
    IN  IF later = {} THEN 0 ELSE CHOOSE j \in later : \A k \in later : j <= k

(***************************************************************************)
(* Tile images.  A base tile is identified by the raster window it was     *)
(* read from; an overview tile by what was painted in the four quadrants   *)
(* of its 2x canvas.                                                       *)
(***************************************************************************)
Transparent == [src |-> <<>>, canvas |-> <<>>]

\* the tile read from the raster for TileBounds(tx, ty, tz)
BaseImage(tz, tx, ty) == [src |-> <<tz, tx, ty>>, canvas |-> <<>>]

\* canvas quadrants in the order (0,0), (tilesize,0), (0,tilesize), (tilesize,tilesize)
QuadIndex(tileposx, tileposy) == 1 + (tileposx \div tilesize) + 2 * (tileposy \div tilesize)

\* "if (ty == 0 and y == 1) or (ty != 0 and (y % (2 * ty)) != 0)"
tileposy(ty, y) ==
    IF (ty = 0 /\ y = 1) \/ (ty # 0 /\ (y % (2 * ty)) # 0) THEN 0 ELSE tilesize

\* the X offset without the branch for tx = 0
tileposxModOnly(tx, x) == IF tx # 0 THEN (x % (2 * tx)) * tilesize ELSE 0

\* "if tx: ... elif tx == 0 and x == 1: ... else: ..."
tileposx(tx, x) ==
    IF tx # 0 THEN (x % (2 * tx)) * tilesize
    ELSE IF tx = 0 /\ x = 1 THEN tilesize
    ELSE 0

(***************************************************************************)
(* The tiles table: a bag of rows                                          *)
(* <<zoom_level, tile_column, tile_row, tile_data>>.                       *)
(***************************************************************************)
Row(z, x, y, data) == <<z, x, y, data>>

\* rows of the bag t matching "zoom_level = ? AND tile_column = ? AND tile_row = ?"
Select(t, z, x, y) == {r \in BagToSet(t) : r[1] = z /\ r[2] = x /\ r[3] = y}

\* the tile_row bound by the insert statements of both phases
StoredRow(o, tz, ty) == ty

\* ty_final, which names the tile file: (2 ** tz - 1) - ty for 'xyz'
ty_final(o, tz, ty) == IF o.output_cache = "xyz" THEN (Pow2(tz) - 1) - ty ELSE ty

\* the bag of the elements of the sequence s
SeqToBag(s) == [r \in {s[k] : k \in 1..Len(s)} |-> Cardinality({k \in 1..Len(s) : s[k] = r})]

\* the prefixes of the sequence s
Prefixes(s) == {SubSeq(s, 1, n) : n \in 0..Len(s)}

(***************************************************************************)
(* One iteration of a worker's tile loop, as a function of what the        *)
(* worker's connection sees (rows), of the archive's schema and index, and *)
(* of whether the environment fails this tile (envfail: the raster read or *)
(* the resampling call fails).  The result says how the iteration ends:    *)
(*   "skip"   continue (resume found the tile);                            *)
(*   "crash"  an exception or sys.exit leaves the loop and the process;    *)
(*   "insert" the insert statement ran with row;                           *)
(*   "none"   the iteration ended without an insert.                       *)
(***************************************************************************)
Outcome(result, row, env, read) ==
    [result |-> result, row |-> row, env |-> env, read |-> read]

NoRow == Row(0, 0, 0, Transparent)

\* self.querysize as __init__ leaves it for the resampling methods modelled
querysize(o) == 4 * tilesize

\* scale_query_to_tile: "ok" or "error".  'antialias' saves the tile to
\* tilefilename, a path below the archive file, which cannot be created.
scale_query_to_tile(o, envfail) ==
    IF o.resampling = "antialias" THEN "error"
    ELSE IF envfail THEN "error"
    ELSE "ok"

\* the insert statement on a table whose unique index is not enforced
InsertTileUnchecked(o, rows, has_schema, has_index, row, read) ==
    IF o.resampling = "antialias" THEN Outcome("none", NoRow, FALSE, read)
    ELSE IF ~has_schema THEN Outcome("crash", NoRow, FALSE, read)
    ELSE Outcome("insert", row, FALSE, read)

\* the insert statement and what SQLite answers
InsertTile(o, rows, has_schema, has_index, row, read) ==
    IF o.resampling = "antialias" THEN Outcome("none", NoRow, FALSE, read)
    ELSE IF ~has_schema THEN Outcome("crash", NoRow, FALSE, read)
    ELSE IF has_index /\ Select(rows, row[1], row[2], row[3]) # {}
         THEN Outcome("crash", NoRow, FALSE, read)
    ELSE Outcome("insert", row, FALSE, read)

\* the body of the loops of generate_base_tiles for tile (tx, ty) at tz
BaseTile(o, rows, has_schema, has_index, tz, tx, ty, envfail) ==
    IF o.resume /\ ~has_schema THEN Outcome("crash", NoRow, FALSE, FALSE)
    ELSE IF o.resume /\ Select(rows, tz, tx, ty) # {}
         THEN Outcome("skip", NoRow, FALSE, FALSE)
    ELSE IF envfail THEN Outcome("crash", NoRow, TRUE, FALSE)
    ELSE IF tilesize # querysize(o) /\ scale_query_to_tile(o, FALSE) = "error"
         THEN Outcome("crash", NoRow, FALSE, FALSE)
    ELSE InsertTile(o, rows, has_schema, has_index,
                    Row(tz, tx, StoredRow(o, tz, ty), BaseImage(tz, tx, ty)), FALSE)

\* the children (x, y) of (tx, ty) that pass the range test of the child zoom
Children(r, tz, tx, ty) ==
    {c \in (2 * tx .. 2 * tx + 1) \X (2 * ty .. 2 * ty + 1) :
        InRange(tminmax(r, tz + 1), c[1], c[2])}

\* position of child c in the order of the two loops (y outer, x inner)
ChildOrder(tx, ty, c) == 2 * (c[2] - 2 * ty) + (c[1] - 2 * tx)

\* fetchone() of the child query
FetchChild(rows, tz, c) == CHOOSE row \in Select(rows, tz + 1, c[1], c[2]) : TRUE

\* the 2x canvas after the children were written, later writes over earlier
Canvas(r, rows, tz, tx, ty) ==
    [q \in 1..4 |->
        LET at == {c \in Children(r, tz, tx, ty) :
                      QuadIndex(tileposx(tx, c[1]), tileposy(ty, c[2])) = q}
        IN  IF at = {} THEN Transparent
            ELSE LET last == CHOOSE c \in at :
                                \A d \in at : ChildOrder(tx, ty, d) <= ChildOrder(tx, ty, c)
                 IN  FetchChild(rows, tz, last)[4]]

OverviewImage(r, rows, tz, tx, ty) == [src |-> <<>>, canvas |-> Canvas(r, rows, tz, tx, ty)]

\* "if self.options.resume and os.path.exists(tilefilename)": the tile file
\* would lie below the archive file, so it never exists
OverviewResumeSkip(o, rows, tz, tx, ty) == FALSE

\* the body of the loops of generate_overview_tiles for tile (tx, ty) at tz
OverviewTile(r, o, rows, has_schema, has_index, tz, tx, ty, envfail) ==
    LET kids == Children(r, tz, tx, ty)
    IN  IF o.resume /\ OverviewResumeSkip(o, rows, tz, tx, ty)
        THEN Outcome("skip", NoRow, FALSE, FALSE)
        ELSE IF kids # {} /\ ~has_schema THEN Outcome("crash", NoRow, FALSE, FALSE)
        ELSE IF \E c \in kids : Select(rows, tz + 1, c[1], c[2]) = {}
             THEN Outcome("crash", NoRow, FALSE, TRUE)
        ELSE IF envfail THEN Outcome("crash", NoRow, TRUE, kids # {})
        ELSE IF scale_query_to_tile(o, FALSE) = "error"
             THEN Outcome("crash", NoRow, FALSE, kids # {})
        ELSE InsertTile(o, rows, has_schema, has_index,
                        Row(tz, tx, StoredRow(o, tz, ty), OverviewImage(r, rows, tz, tx, ty)),
                        kids # {})

(***************************************************************************)
(* The run with one worker whose every insert reaches the table: the       *)
(* loops of one phase after the other, each over the whole range.          *)
(***************************************************************************)
RECURSIVE OneWorkerPhase(_, _, _, _, _, _)
\* iterations ti.. of the loops of one phase at zoom z, from the table rows
OneWorkerPhase(r, o, kind, z, ti, rows) ==
    IF ti > LoopCount(tminmax(r, z)) THEN rows
    ELSE LET t == LoopTile(tminmax(r, z), ti)
             out == IF kind = "base"
                    THEN BaseTile(o, rows, TRUE, FALSE, z, t[1], t[2], FALSE)
                    ELSE OverviewTile(r, o, rows, TRUE, FALSE, z, t[1], t[2], FALSE)
         IN  IF out.result = "crash" THEN rows
             ELSE IF out.result = "insert"
                  THEN OneWorkerPhase(r, o, kind, z, ti + 1, rows (+) SetToBag({out.row}))
             ELSE OneWorkerPhase(r, o, kind, z, ti + 1, rows)

RECURSIVE OneWorkerOverviews(_, _, _, _)
\* "for tz in range(tmaxz - 1, tminz - 1, -1)" from zoom z down
OneWorkerOverviews(r, o, z, rows) ==
    IF z < InitTminz(o) THEN rows
    ELSE OneWorkerOverviews(r, o, z - 1, OneWorkerPhase(r, o, "overview", z, 1, rows))

\* the tiles table after main with --processes 1 on a new archive
OneWorkerTiles(r, o) ==
    OneWorkerOverviews(r, o, InitTmaxz(o) - 1,
                       OneWorkerPhase(r, o, "base", OpenTmaxz(r, o), 1, EmptyBag))

(***************************************************************************)
(* State.                                                                  *)
(***************************************************************************)
VARIABLES
    raster,        \* the input raster of the command
    opts,          \* the options of the command
    run,           \* how many times the command has been issued
    pc,            \* main: where the parent process is
    tminz, tmaxz,  \* main: its locals, read from the parent's gdal2mbtiles object
    tz,            \* main: the zoom of the overview loop
    meta,          \* the worker_metadata child: "none", "running", "exited", "failed"
    procs,         \* main: the list procs, one record per tile worker started
    schema,        \* archive: the four tables exist
    metadata,      \* archive: names in the metadata table
    tiles,         \* archive: committed rows of the tiles table
    index_name,    \* archive: unique index on metadata(name) exists
    tile_index,    \* archive: unique index on tiles(zoom_level, tile_column, tile_row) exists
    journal_mode,  \* journal mode of the parent's last connection
    lock,          \* archive: which worker holds the write lock, 0 if none
    failures,      \* history: environment failures so far
    failed,        \* history: a tile of this run was lost to a failure
    inserted,      \* history: keys <<z, x, y>> of the insert statements run in this run
    readZ,         \* history: zooms whose overview workers have queried a child
    created,       \* history: how often this run has created the schema
    tiles0,        \* history: the tiles table when this run started
    stopped,       \* main: self.stopped of the parent's GDAL2Mbtiles object
    plan           \* the planner call under study: function, arguments, result

vars == <<raster, opts, run, pc, tminz, tmaxz, tz, meta, procs, schema, metadata,
          tiles, index_name, tile_index, journal_mode, lock, failures, failed, inserted,
          readZ, created, tiles0, stopped, plan>>

archive == <<schema, metadata, tiles, index_name, tile_index>>

history == <<failures, failed, inserted, readZ, created, tiles0>>

\* a call of a planner function: its name, arguments and result
Call(fn, arg, ret) == [fn |-> fn, arg |-> arg, ret |-> ret]

NoCall == Call("none", <<>>, <<>>)

\* the names of generate_metadatajson
MetadataNames ==
    {"name", "description", "version", "attribution", "type", "format",
     "minzoom", "maxzoom", "bounds", "scale", "profile"}

\* the names generate_metadata inserts into the metadata table (mercator
\* profile): those of metadata.json, when that viewer file is written
generate_metadata(o) ==
    IF o.webviewer \in {"all", "metadata"} THEN MetadataNames ELSE {}

\* inputs whose base phase has at most MaxTiles tiles and whose zooms are modelled
Modelled(r, o) ==
    /\ OpenTmaxz(r, o) \in 0..MaxZoom
    /\ OpenTminz(r, o) \in 0..MaxZoom
    /\ LoopCount(tminmax(r, OpenTmaxz(r, o))) <= MaxTiles

Init ==
    /\ raster \in Rasters
    /\ opts \in Options
    /\ Modelled(raster, opts)
    /\ run = 1
    /\ pc = "start"
    /\ tminz = None
    /\ tmaxz = None
    /\ tz = None
    /\ meta = "none"
    /\ procs = <<>>
    /\ schema = FALSE
    /\ metadata = {}
    /\ tiles = EmptyBag
    /\ index_name = FALSE
    /\ tile_index = FALSE
    /\ journal_mode = "OFF"
    /\ lock = 0
    /\ failures = 0
    /\ failed = FALSE
    /\ inserted = EmptyBag
    /\ readZ = {}
    /\ created = 0
    /\ tiles0 = EmptyBag
    /\ stopped = FALSE
    /\ plan = NoCall

(***************************************************************************)
(* worker_metadata, the child started first.                               *)
(***************************************************************************)
\* main: p = Process(target=worker_metadata); p.start()
MainStartMetadata ==
    /\ pc = "start"
    /\ meta' = "running"
    /\ pc' = "join_metadata"
    /\ UNCHANGED <<raster, opts, run, tminz, tmaxz, tz, procs, archive,
                   journal_mode, lock, history>>
    /\ UNCHANGED stopped
    /\ UNCHANGED plan

\* worker_metadata: open_input, connect, and unless resume: mbtiles_setup,
\* generate_metadata, commit.  CREATE TABLE fails when the table exists.
WorkerMetadata ==
    /\ meta = "running"
    /\ IF opts.resume
       THEN /\ meta' = "exited"
            /\ UNCHANGED <<schema, metadata, created>>
       ELSE IF schema
       THEN /\ meta' = "failed"
            /\ UNCHANGED <<schema, metadata, created>>
       ELSE /\ schema' = TRUE
            /\ created' = created + 1
            /\ metadata' = metadata \cup generate_metadata(opts)
            /\ meta' = "exited"
    /\ UNCHANGED <<raster, opts, run, pc, tminz, tmaxz, tz, procs, tiles, index_name,
                   tile_index, journal_mode, lock, failures, failed, inserted, readZ,
                   tiles0>>
    /\ UNCHANGED stopped
    /\ UNCHANGED plan

\* main: p.join(); tminz = gdal2mbtiles.tminz; tmaxz = gdal2mbtiles.tmaxz.
\* open_input ran in the child, so the parent's object is as __init__ left it.
MainJoinMetadata ==
    /\ pc = "join_metadata"
    /\ meta \in {"exited", "failed"}
    /\ tminz' = InitTminz(opts)
    /\ tmaxz' = InitTmaxz(opts)
    /\ pc' = "start_base"
    /\ UNCHANGED <<raster, opts, run, tz, meta, procs, archive, journal_mode, lock,
                   history>>
    /\ UNCHANGED stopped
    /\ UNCHANGED plan

(***************************************************************************)
(* Tile workers: worker_base_tiles and worker_overview_tiles.              *)
(***************************************************************************)
\* a process started by main; each worker builds its own GDAL2Mbtiles from
\* argv and runs open_input, so it holds the derived zoom range, and its own
\* self.stopped, which __init__ sets to False
Worker(kind, cpu, z) ==
    [kind |-> kind, cpu |-> cpu, tz |-> z, st |-> "running", ti |-> 0,
     pending |-> <<>>, stopped |-> FALSE]

Workers(kind, z) == [c \in 1..opts.processes |-> Worker(kind, c - 1, z)]

\* multiprocessing.active_children()
active_children == {i \in 1..Len(procs) : procs[i].st = "running"}

\* the range a worker's loops run over
WorkerRange(w) == tminmax(raster, w.tz)

\* what the worker's connection sees: committed rows and its own open transaction
Visible(w) == tiles (+) SeqToBag(w.pending)

\* the loop body of worker w for iteration j
LoopBody(w, j, envfail) ==
    LET t == LoopTile(WorkerRange(w), j)
    IN  IF w.kind = "base"
        THEN BaseTile(opts, Visible(w), schema, tile_index, w.tz, t[1], t[2], envfail)
        ELSE OverviewTile(raster, opts, Visible(w), schema, tile_index, w.tz, t[1], t[2],
                          envfail)

\* the next iteration worker w does not skip, 0 when its loops are over
\* ("if self.stopped: break" leaves the inner loop of every row)
NextTile(w) ==
    IF w.stopped THEN 0
    ELSE NextClaimed(w.ti, w.cpu, opts.processes, LoopCount(WorkerRange(w)))

\* "if not self.options.verbose: con.commit()"
CommitsEachTile(o) == ~o.verbose

\* The connection of worker i goes away with rows left in its open
\* transaction (close() without commit, or the process dies).  The journal is
\* off, so what the rollback leaves in the file is undefined: the pages the
\* cache had spilled stay, which is some prefix of the transaction.
Abandon(i, st) ==
    \E kept \in Prefixes(procs[i].pending) :
        /\ tiles' = tiles (+) SeqToBag(kept)
        /\ procs' = [procs EXCEPT ![i].st = st, ![i].pending = <<>>]
        /\ lock' = IF lock = i THEN 0 ELSE lock

\* one iteration of the tile loop of worker i
WorkerTile(i) ==
    /\ i \in active_children
    /\ NextTile(procs[i]) # 0
    /\ \E envfail \in BOOLEAN :
         LET w == procs[i]
             j == NextTile(w)
             out == LoopBody(w, j, envfail)
         IN  /\ envfail => failures < MaxFailures /\ out.env
             /\ failures' = IF out.env THEN failures + 1 ELSE failures
             /\ failed' = (failed \/ out.env)
             /\ readZ' = IF out.read THEN readZ \cup {w.tz} ELSE readZ
             /\ CASE out.result = "crash" ->
                       /\ Abandon(i, "crashed")
                       /\ UNCHANGED inserted
                  [] out.result \in {"skip", "none"} ->
                       /\ procs' = [procs EXCEPT ![i].ti = j]
                       /\ UNCHANGED <<tiles, lock, inserted>>
                  [] out.result = "insert" ->
                       /\ lock \in {0, i}
                       /\ inserted' = inserted (+) SetToBag({<<out.row[1], out.row[2], out.row[3]>>})
                       /\ IF CommitsEachTile(opts)
                          THEN /\ tiles' = Visible(w) (+) SetToBag({out.row})
                               /\ procs' = [procs EXCEPT ![i].ti = j, ![i].pending = <<>>]
                               /\ lock' = 0
                          ELSE /\ procs' = [procs EXCEPT ![i].ti = j,
                                              ![i].pending = Append(w.pending, out.row)]
                               /\ lock' = i
                               /\ UNCHANGED tiles
    /\ UNCHANGED <<raster, opts, run, pc, tminz, tmaxz, tz, meta, schema, metadata,
                   index_name, tile_index, journal_mode, created, tiles0>>
    /\ UNCHANGED stopped
    /\ UNCHANGED plan

\* the insert of worker i waits for the write lock another connection holds
\* until the busy timeout of 30 s ends it with "database is locked"
WorkerLockTimeout(i) ==
    /\ i \in active_children
    /\ NextTile(procs[i]) # 0
    /\ LoopBody(procs[i], NextTile(procs[i]), FALSE).result = "insert"
    /\ lock \notin {0, i}
    /\ Abandon(i, "crashed")
    /\ UNCHANGED <<raster, opts, run, pc, tminz, tmaxz, tz, meta, schema, metadata,
                   index_name, tile_index, journal_mode, history>>
    /\ UNCHANGED stopped
    /\ UNCHANGED plan

\* the loops are over: con.close() and the process ends
WorkerExit(i) ==
    /\ i \in active_children
    /\ NextTile(procs[i]) = 0
    /\ Abandon(i, "exited")
    /\ UNCHANGED <<raster, opts, run, pc, tminz, tmaxz, tz, meta, schema, metadata,
                   index_name, tile_index, journal_mode, history>>
    /\ UNCHANGED stopped
    /\ UNCHANGED plan

(***************************************************************************)
(* main: the phases.                                                       *)
(***************************************************************************)
\* the wait loop never left
WaitOverNever == FALSE

\* the wait loop left at once, whatever the children do
WaitOverAtOnce == TRUE

\* "while len(multiprocessing.active_children())": the loop is left when no
\* child process is alive
WaitOver == active_children = {}

\* for cpu in range(proc_count): Process(target=worker_base_tiles).start()
MainStartBase ==
    /\ pc = "start_base"
    /\ procs' = procs \o Workers("base", OpenTmaxz(raster, opts))
    /\ pc' = "wait_base"
    /\ UNCHANGED <<raster, opts, run, tminz, tmaxz, tz, meta, archive, journal_mode,
                   lock, history>>
    /\ UNCHANGED stopped
    /\ UNCHANGED plan

\* the wait loop of the base phase, then "range(tmaxz - 1, tminz - 1, -1)",
\* which raises TypeError on None
MainWaitBase ==
    /\ pc = "wait_base"
    /\ WaitOver
    /\ IF tmaxz = None \/ tminz = None
       THEN pc' = "crashed" /\ UNCHANGED tz
       ELSE pc' = "start_overview" /\ tz' = tmaxz - 1
    /\ UNCHANGED <<raster, opts, run, tminz, tmaxz, meta, procs, archive, journal_mode,
                   lock, history>>
    /\ UNCHANGED stopped
    /\ UNCHANGED plan

\* one round of "for tz in range(tmaxz - 1, tminz - 1, -1)": start the
\* overview workers of tz, or leave the loop
MainStartOverview ==
    /\ pc = "start_overview"
    /\ IF tz >= tminz
       THEN /\ procs' = procs \o Workers("overview", tz)
            /\ pc' = "wait_overview"
       ELSE /\ pc' = "index"
            /\ UNCHANGED procs
    /\ UNCHANGED <<raster, opts, run, tminz, tmaxz, tz, meta, archive, journal_mode,
                   lock, history>>
    /\ UNCHANGED stopped
    /\ UNCHANGED plan

\* the wait loop of one overview zoom
MainWaitOverview ==
    /\ pc = "wait_overview"
    /\ WaitOver
    /\ tz' = tz - 1
    /\ pc' = "start_overview"
    /\ UNCHANGED <<raster, opts, run, tminz, tmaxz, meta, procs, archive, journal_mode,
                   lock, history>>
    /\ UNCHANGED stopped
    /\ UNCHANGED plan

\* some key occurs in two rows of the tiles table
Duplicates(t) == \E r \in BagToSet(t) : Cardinality(Select(t, r[1], r[2], r[3])) > 1
                                     \/ CopiesIn(r, t) > 1

\* create_index: two statements, each of which may be refused
create_index_name == schema /\ ~index_name

create_tile_index == schema /\ ~tile_index /\ ~Duplicates(tiles)

\* the end of main: connect, create_index unless resume, journal_mode=DELETE
MainIndex ==
    /\ pc = "index"
    /\ IF opts.resume
       THEN /\ journal_mode' = "DELETE"
            /\ pc' = "done"
            /\ UNCHANGED <<index_name, tile_index>>
       ELSE IF ~create_index_name
       THEN /\ pc' = "crashed"
            /\ UNCHANGED <<index_name, tile_index, journal_mode>>
       ELSE IF ~create_tile_index
       THEN /\ index_name' = TRUE
            /\ pc' = "crashed"
            /\ UNCHANGED <<tile_index, journal_mode>>
       ELSE /\ index_name' = TRUE
            /\ tile_index' = TRUE
            /\ journal_mode' = "DELETE"
            /\ pc' = "done"
    /\ UNCHANGED <<raster, opts, run, tminz, tmaxz, tz, meta, procs, schema, metadata,
                   tiles, lock, history>>
    /\ UNCHANGED stopped
    /\ UNCHANGED plan

\* the commands whose re-issue on one archive is explored: with the default
\* --webviewer, any command without -v, and with -v the commands on one raster
ArchiveScope(r, o) ==
    /\ o.webviewer = "all"
    /\ o.verbose => (r = Quadrant /\ o.resampling = "average" /\ o.processes = MaxProcs)

(***************************************************************************)
(* The user: interrupting a run between two phases, and issuing the        *)
(* command again on the same archive, with or without --resume.            *)
(***************************************************************************)
Interrupt ==
    /\ pc \in {"start_overview", "index"}
    /\ pc' = "killed"
    /\ UNCHANGED <<raster, opts, run, tminz, tmaxz, tz, meta, procs, archive,
                   journal_mode, lock, history>>
    /\ UNCHANGED stopped
    /\ UNCHANGED plan

Rerun ==
    /\ pc \in {"done", "crashed", "killed"}
    /\ run < MaxRuns
    /\ run' = run + 1
    /\ \E resume \in BOOLEAN : opts' = [opts EXCEPT !.resume = resume]
    /\ pc' = "start"
    /\ tminz' = None
    /\ tmaxz' = None
    /\ tz' = None
    /\ meta' = "none"
    /\ procs' = <<>>
    /\ journal_mode' = "OFF"
    /\ failed' = FALSE
    /\ inserted' = EmptyBag
    /\ readZ' = {}
    /\ created' = 0
    /\ tiles0' = tiles
    /\ stopped' = FALSE
    /\ UNCHANGED <<raster, archive, lock, failures>>
    /\ UNCHANGED plan

\* stop() is called on the GDAL2Mbtiles object of main while the run is on
Stop ==
    /\ pc \notin {"done", "crashed", "killed"}
    /\ ~stopped
    /\ stopped' = TRUE
    /\ UNCHANGED <<raster, opts, run, pc, tminz, tmaxz, tz, meta, procs, archive,
                   journal_mode, lock, history>>
    /\ UNCHANGED plan

\* one command: main and the processes it starts
Next ==
    \/ MainStartMetadata
    \/ WorkerMetadata
    \/ MainJoinMetadata
    \/ MainStartBase
    \/ MainWaitBase
    \/ MainStartOverview
    \/ MainWaitOverview
    \/ MainIndex
    \/ \E i \in 1..Len(procs) : WorkerTile(i)
    \/ \E i \in 1..Len(procs) : WorkerLockTimeout(i)
    \/ \E i \in 1..Len(procs) : WorkerExit(i)

\* one command on a new archive, with any options
Spec == Init /\ [][Next]_vars

\* the steps of the parent process
MainStep ==
    \/ MainStartMetadata
    \/ MainJoinMetadata
    \/ MainStartBase
    \/ MainWaitBase
    \/ MainStartOverview
    \/ MainWaitOverview
    \/ MainIndex

\* no child process is alive
AllWorkersExited == active_children = {} /\ meta # "running"

\* One command under fair scheduling: the parent keeps running (its wait
\* loops poll the queue with a timeout of one second and swallow every
\* exception), and every child process started exits in the end, normally
\* or by crashing.
SpecFair == Init /\ [][Next]_vars /\ WF_vars(MainStep) /\ []<>AllWorkersExited

\* one command during which stop() may be called
NextStop ==
    \/ Next
    \/ Stop

SpecStop == Init /\ [][NextStop]_vars

\* commands issued one after the other on the same archive
NextArchive ==
    \/ Next
    \/ Interrupt
    \/ Rerun

InitArchive == Init /\ ArchiveScope(raster, opts)

SpecArchive == InitArchive /\ [][NextArchive]_vars

(***************************************************************************)
(* The planner functions on their own: each step calls one of them on      *)
(* arguments drawn from a bounded set and records the result in plan.      *)
(***************************************************************************)
\* the options optparse_init sets when the command line gives none
(***************************************************************************)
(* geo_query, on rationals <<num, den>> with den > 0.                      *)
(***************************************************************************)
\* int(n / d): truncation toward zero
Trunc(n, d) ==
    IF d < 0 THEN (IF n <= 0 THEN (-n) \div (-d) ELSE -(n \div (-d)))
    ELSE IF n >= 0 THEN n \div d ELSE -((-n) \div d)

RSub(a, b) == <<a[1] * b[2] - b[1] * a[2], a[2] * b[2]>>

RAdd(a, b) == <<a[1] * b[2] + b[1] * a[2], a[2] * b[2]>>

\* a / b for b # 0, the denominator kept positive
RDiv(a, b) ==
    IF b[1] > 0 THEN <<a[1] * b[2], a[2] * b[1]>>
    ELSE <<-(a[1] * b[2]), -(a[2] * b[1])>>

\* int(x) of a rational
RInt(x) == Trunc(x[1], x[2])

\* the write size when the requested query size is ignored
QueryOrNativeIgnored(rsize, qsize) == rsize

\* wxsize, wysize before any clamping
QueryOrNative(rsize, qsize) == IF qsize = 0 THEN rsize ELSE qsize

\* one axis of geo_query without the branch for a window past the far edge
geo_query_axisNoFarClamp(ul, lr, origin, pixel, RasterSize, qsize) ==
    LET r0     == RInt(RAdd(RDiv(RSub(ul, origin), pixel), <<1, 1000>>))
        rsize0 == RInt(RAdd(RDiv(RSub(lr, ul), pixel), <<1, 2>>))
        wsize0 == QueryOrNative(rsize0, qsize)
        shift  == -r0
        w1     == IF r0 < 0 THEN Trunc(wsize0 * shift, rsize0) ELSE 0
        wsize1 == IF r0 < 0 THEN wsize0 - w1 ELSE wsize0
        rsize1 == IF r0 < 0 THEN rsize0 - Trunc(rsize0 * shift, rsize0) ELSE rsize0
        r1     == IF r0 < 0 THEN 0 ELSE r0
    IN  <<r1, rsize1, w1, wsize1>>

\* one axis of geo_query: <<rx, rxsize, wx, wxsize>> for the x axis
\* (pixel = geotran[1]) and <<ry, rysize, wy, wysize>> for the y axis
\* (pixel = geotran[5])
geo_query_axis(ul, lr, origin, pixel, RasterSize, qsize) ==
    LET r0     == RInt(RAdd(RDiv(RSub(ul, origin), pixel), <<1, 1000>>))
        rsize0 == RInt(RAdd(RDiv(RSub(lr, ul), pixel), <<1, 2>>))
        wsize0 == QueryOrNative(rsize0, qsize)
        shift  == -r0
        w1     == IF r0 < 0 THEN Trunc(wsize0 * shift, rsize0) ELSE 0
        wsize1 == IF r0 < 0 THEN wsize0 - w1 ELSE wsize0
        rsize1 == IF r0 < 0 THEN rsize0 - Trunc(rsize0 * shift, rsize0) ELSE rsize0
        r1     == IF r0 < 0 THEN 0 ELSE r0
        far    == r1 + rsize1 > RasterSize
        wsize2 == IF far THEN Trunc(wsize1 * (RasterSize - r1), rsize1) ELSE wsize1
        rsize2 == IF far THEN RasterSize - r1 ELSE rsize1
    IN  <<r1, rsize2, w1, wsize2>>

\* geo_query(ds, ulx, uly, lrx, lry, querysize):
\* <<<<rx, ry, rxsize, rysize>>, <<wx, wy, wxsize, wysize>>>>
geo_query(ds, ulx, uly, lrx, lry, qsize) ==
    LET x == geo_query_axis(ulx, lrx, <<ds.gt0, 1>>, ds.px, ds.xsize, qsize)
        y == geo_query_axis(uly, lry, <<ds.gt3, 1>>, <<-ds.px[1], ds.px[2]>>, ds.ysize, qsize)
    IN  <<<<x[1], y[1], x[2], y[2]>>, <<x[3], y[3], x[4], y[4]>>>>

\* a raster of 4 x 3 pixels of half a unit, for the calls of geo_query
Small == [gt0 |-> 0 - 1, gt3 |-> 1, px |-> <<1, 2>>, xsize |-> 4, ysize |-> 3]

\* corners of query rectangles, a quarter of a unit (half a pixel of Small) apart
Coords == {<<n, 4>> : n \in (0 - MaxCoord)..MaxCoord}

\* query sizes asked for
QuerySizes == {4, 7}

(***************************************************************************)
(* The raster profile.                                                     *)
(***************************************************************************)
\* self.querysize after __init__, by --resampling
InitQuerysize(resampling) ==
    IF resampling = "near" THEN tilesize
    ELSE IF resampling = "bilinear" THEN tilesize * 2
    ELSE 4 * tilesize

RECURSIVE LogUp(_, _)
\* the least k >= j with tilesize * 2^k >= n
LogUp(n, j) == IF tilesize * Pow2(j) >= n THEN j ELSE LogUp(n, j + 1)

RECURSIVE LogDown(_, _)
\* the greatest m >= j with n * 2^m <= tilesize
LogDown(n, j) == IF n * Pow2(j + 1) <= tilesize THEN LogDown(n, j + 1) ELSE j

\* math.ceil(log2(n / float(self.tilesize))) for n >= 1
CeilLog2Tiles(n) == IF n > tilesize THEN LogUp(n, 1) ELSE 0 - LogDown(n, 0)

\* self.nativezoom of a raster of w x h pixels
nativezoom(w, h) == Max(CeilLog2Tiles(w), CeilLog2Tiles(h))

\* int(self.tsize[tz]) for tz = zoom <= nativezoom
tsize(w, h, zoom) == Pow2(nativezoom(w, h) - zoom) * tilesize

\* self.tminmax[tz], tz = zoom, of the raster profile
tminmaxRaster(w, h, zoom) ==
    <<0, 0, Ceil(w, tsize(w, h, zoom)) - 1, Ceil(h, tsize(w, h, zoom)) - 1>>

\* the raster branch of generate_base_tiles for tile (tx, ty) at tz = zoom:
\* <<<<rx, ry, rxsize, rysize>>, <<wx, wy, wxsize, wysize>>, querysize>>
RasterWindow(w, h, resampling, zoom, tx, ty) ==
    LET ts      == tsize(w, h, zoom)
        rg      == tminmaxRaster(w, h, zoom)
        qs      == IF zoom >= nativezoom(w, h) THEN tilesize ELSE InitQuerysize(resampling)
        rx      == tx * ts
        rxsize0 == IF tx = rg[3] THEN w % ts ELSE 0
        rxsize  == IF rxsize0 = 0 THEN ts ELSE rxsize0
        rysize0 == IF ty = rg[4] THEN h % ts ELSE 0
        rysize  == IF rysize0 = 0 THEN ts ELSE rysize0
        ry      == h - (ty * ts) - rysize
        wxsize  == Trunc(rxsize * tilesize, ts)
        wysize  == Trunc(rysize * tilesize, ts)
        wy      == IF wysize # tilesize THEN tilesize - wysize ELSE 0
    IN  <<<<rx, ry, rxsize, rysize>>, <<0, wy, wxsize, wysize>>, qs>>

\* raster sizes of the raster profile
RasterProfileSizes == {256, 600, 1024}

\* --resampling
Resamplings == {"average", "near", "bilinear", "cubic", "antialias"}

DefaultOptions ==
    [resume |-> FALSE, output_cache |-> "xyz", resampling |-> "average",
     verbose |-> FALSE, zoom |-> [given |-> FALSE, min |-> None, max |-> None],
     processes |-> 1, webviewer |-> "all"]

\* --zoom MIN-MAX as given by the user
ZoomArgs == [given : {TRUE}, min : 0..MaxZoomArg, max : 0..MaxZoomArg]

\* everything but plan
main == <<raster, opts, run, pc, tminz, tmaxz, tz, meta, procs, schema, metadata,
          tiles, index_name, tile_index, journal_mode, lock, failures, failed, inserted,
          readZ, created, tiles0, stopped>>

InitPlan == Init /\ raster = World /\ opts = DefaultOptions

\* The planner functions keep no state between calls: a behaviour of SpecPlan
\* is one call, recorded in plan.
\* __init__ on --zoom MIN-MAX: self.tminz, self.tmaxz
CallZoomOption ==
    /\ plan = NoCall
    /\ \E z \in ZoomArgs :
          plan' = Call("zoom", <<z.min, z.max>>,
                       <<InitTminz([DefaultOptions EXCEPT !.zoom = z]),
                         InitTmaxz([DefaultOptions EXCEPT !.zoom = z])>>)
    /\ UNCHANGED main

\* open_input: one entry of the table self.tminmax
CallTileRange ==
    /\ plan = NoCall
    /\ \E r \in Rasters, z \in 0..MaxPlanZoom :
          plan' = Call("tminmax", <<z>>, tminmax(r, z))
    /\ UNCHANGED main

\* TileBounds(tx, ty, z), then MetersToPixels and PixelsToTile on its
\* minimum corner, for an in-range tile
CallRoundTrip ==
    /\ plan = NoCall
    /\ \E z \in 0..(MaxZoom + 1) :
         \E tx \in 0..(Pow2(z) - 1), ty \in 0..(Pow2(z) - 1) :
            plan' = Call("roundtrip", <<z, tx, ty>>,
                         <<PixelsToTile(MetersToPixels(TileBoundsMin(tx, z), z)),
                           PixelsToTile(MetersToPixels(TileBoundsMin(ty, z), z))>>)
    /\ UNCHANGED main

\* positive pixel sizes n / (d * 2^s)
PixelSizes == {<<n, d, sh>> : n \in 1..3, d \in {1, 3}, sh \in 0..MaxShift}

\* GlobalMercator.ZoomForPixelSize(pixelSize)
CallZoomForPixelSize ==
    /\ plan = NoCall
    /\ \E p \in PixelSizes :
          plan' = Call("ZoomForPixelSize", p, <<ZoomForPixelSize(p)>>)
    /\ UNCHANGED main

\* open_input without --zoom on a raster of pixel size p: self.tmaxz
CallDefaultTmaxz ==
    /\ plan = NoCall
    /\ \E p \in PixelSizes :
          plan' = Call("tmaxz", p, <<OpenTmaxz([World EXCEPT !.px = p], DefaultOptions)>>)
    /\ UNCHANGED main

\* geo_query on a rectangle ulx < lrx, lry < uly
CallGeoQuery ==
    /\ plan = NoCall
    /\ \E ulx \in Coords, lrx \in Coords, uly \in Coords, lry \in Coords, q \in QuerySizes :
          /\ ulx[1] < lrx[1]
          /\ lry[1] < uly[1]
          /\ plan' = Call("geo_query", <<ulx, uly, lrx, lry, q>>,
                          geo_query(Small, ulx, uly, lrx, lry, q))
    /\ UNCHANGED main

\* the offsets generate_overview_tiles gives the four children of (tx, ty),
\* by child offset <<cx - 2tx, cy - 2ty>>
CallTilePos ==
    /\ plan = NoCall
    /\ \E tx \in 0..MaxParent, ty \in 0..MaxParent :
          plan' = Call("tilepos", <<tx, ty>>,
                       [d \in (0..1) \X (0..1) |->
                           <<tileposx(tx, 2 * tx + d[1]), tileposy(ty, 2 * ty + d[2])>>])
    /\ UNCHANGED main

\* RasterXSize and RasterYSize, below and above one tile
RasterSizes == {1, 64, 255, 256, 257, 512}

\* open_input without --zoom on a raster of pixel size p and of w x h pixels:
\* self.tminz and self.tmaxz
CallDefaultZooms ==
    /\ plan = NoCall
    /\ \E p \in PixelSizes, w \in RasterSizes, h \in RasterSizes :
          LET r == [World EXCEPT !.px = p, !.xsize = w, !.ysize = h]
          IN  plan' = Call("zooms", <<p, w, h>>,
                           <<OpenTminz(r, DefaultOptions), OpenTmaxz(r, DefaultOptions)>>)
    /\ UNCHANGED main

\* projected rasters by origin and size, inside, across and outside the world
PlanRasters ==
    [gt0 : (0 - MaxOrigin)..MaxOrigin, gt3 : (0 - MaxOrigin)..MaxOrigin,
     px : {<<1, 128>>}, xsize : {96, 256, 800}, ysize : {96, 256, 800}]

\* the tiles of an entry of self.tminmax
RangeTiles(rg) == (rg[1]..rg[3]) \X (rg[2]..rg[4])

\* open_input: the entries of self.tminmax for two consecutive zooms
CallPyramid ==
    /\ plan = NoCall
    /\ \E r \in PlanRasters, z \in 0..MaxZoom :
          plan' = Call("pyramid", <<r, z>>, <<tminmax(r, z), tminmax(r, z + 1)>>)
    /\ UNCHANGED main

\* generate_base_tiles on tile (tx, ty) of the range of the default tmaxz:
\* "b = self.mercator.TileBounds(tx, ty, tz)" and
\* "self.geo_query(ds, b[0], b[3], b[2], b[1], querysize=querysize)"
CallBaseQuery ==
    /\ plan = NoCall
    /\ \E r \in PlanRasters :
         LET z == OpenTmaxz(r, DefaultOptions)
         IN  \E t \in RangeTiles(tminmax(r, z)) :
                plan' = Call("base_query", <<r, z, t[1], t[2]>>,
                             geo_query(r, TileBoundsMin(t[1], z), TileBoundsMin(t[2] + 1, z),
                                       TileBoundsMin(t[1] + 1, z), TileBoundsMin(t[2], z),
                                       querysize(DefaultOptions)))
    /\ UNCHANGED main

\* the raster profile: the windows of one base tile, with --zoom up to the
\* native zoom
CallRasterTile ==
    /\ plan = NoCall
    /\ \E w \in RasterProfileSizes, h \in RasterProfileSizes, rs \in Resamplings :
         \E z \in 0..nativezoom(w, h) :
            \E t \in RangeTiles(tminmaxRaster(w, h, z)) :
               plan' = Call("raster_tile", <<w, h, rs, z, t[1], t[2]>>,
                            RasterWindow(w, h, rs, z, t[1], t[2]))
    /\ UNCHANGED main

NextPlan ==
    \/ CallZoomOption
    \/ CallTileRange
    \/ CallRoundTrip
    \/ CallZoomForPixelSize
    \/ CallDefaultTmaxz
    \/ CallGeoQuery
    \/ CallTilePos
    \/ CallDefaultZooms
    \/ CallPyramid
    \/ CallBaseQuery
    \/ CallRasterTile

SpecPlan == InitPlan /\ [][NextPlan]_vars

(***************************************************************************)
(* Properties.                                                             *)
(***************************************************************************)
\* no worker of this run ended by an exception or sys.exit
NoCrash == \A i \in 1..Len(procs) : procs[i].st # "crashed"

\* the keys <<z, tx, ty>> of the tile range of zoom z
RangeKeys(z) ==
    {<<z, LoopTile(tminmax(raster, z), ti)[1], LoopTile(tminmax(raster, z), ti)[2]>> :
        ti \in 1..LoopCount(tminmax(raster, z))}

\* how many rows of the table t have the key <<z, x, y>>
RowCount(t, z, x, y) ==
    LET S == Select(t, z, x, y)
    IN  IF S = {} THEN 0 ELSE BagCardinality([r \in S |-> CopiesIn(r, t)])

\* C1: a run without resume that reaches its end with no worker failing
\* leaves exactly one row for every tile of the range of every zoom from
\* tminz to tmaxz, and no other row.
C1_ExactlyOneRowPerTile ==
    (pc = "done" /\ ~opts.resume /\ NoCrash) =>
        /\ \A z \in tminz..tmaxz : \A k \in RangeKeys(z) : RowCount(tiles, k[1], k[2], k[3]) = 1
        /\ \A r \in BagToSet(tiles) : r[1] \in tminz..tmaxz /\ <<r[1], r[2], r[3]>> \in RangeKeys(r[1])

\* C2: while an overview worker of zoom z exists, no base worker and no
\* overview worker of a higher zoom is running; and once an overview worker
\* of zoom z has read a child, no insert at zoom z + 1 follows.
C2_CrossPhaseBarrier ==
    /\ [](\A i, j \in 1..Len(procs) :
            (procs[i].kind = "overview" /\ j \in active_children) =>
                (procs[j].kind = "overview" /\ procs[j].tz <= procs[i].tz))
    /\ [][\A z \in readZ : \A k \in BagToSet(inserted') :
            k[1] = z + 1 => CopiesIn(k, inserted') = CopiesIn(k, inserted)]_vars

\* C2 witness: an overview worker of zoom z has read a child after tiles of
\* zoom z + 1 were inserted, and a second overview zoom is under way
C2_Witness ==
    /\ \E z \in readZ : \E k \in BagToSet(inserted) : k[1] = z + 1
    /\ \E i, j \in 1..Len(procs) :
          /\ procs[i].kind = "overview"
          /\ procs[j].kind = "overview"
          /\ procs[j].tz < procs[i].tz
          /\ j \in active_children

\* C3: the tile_row stored with a base tile is ty for 'tms' and
\* (2^z - 1) - ty for 'xyz', ty being the row of the tile bounds it was read from.
C3_StoredRowFollowsConvention ==
    \A r \in BagToSet(tiles) :
        r[4].src # <<>> => r[3] = ty_final(opts, r[1], r[4].src[3])

\* C4: a resume run executes no insert for a tile whose row was in the table
\* when the run started.
C4_ResumeInsertsNoExistingTile ==
    opts.resume => \A k \in BagToSet(inserted) : Select(tiles0, k[1], k[2], k[3]) = {}

\* the tile worker w is about to build has a child inside the child zoom's
\* range with no row in the table
MissingChild(w) ==
    LET t == LoopTile(WorkerRange(w), NextTile(w))
    IN  \E c \in Children(raster, w.tz, t[1], t[2]) :
            Select(Visible(w), w.tz + 1, c[1], c[2]) = {}

\* C5: an overview worker that builds a tile with a child missing from the
\* table goes on running and inserts the tile.
C5_MissingChildLeftTransparent ==
    [][\A i \in 1..Len(procs) :
          (/\ i \in active_children
           /\ procs[i].kind = "overview"
           /\ NextTile(procs[i]) # 0
           /\ schema
           /\ MissingChild(procs[i])
           /\ procs'[i] # procs[i]) =>
              (procs'[i].st = "running" /\ inserted' # inserted)]_vars

\* C6: a worker whose tile fails (raster read, resampling) is still running
\* afterwards, at its next tile.
C6_FailureLosesOneTile ==
    [][\A i \in 1..Len(procs) :
          (failures' > failures /\ i \in active_children /\ procs'[i] # procs[i]) =>
              procs'[i].st = "running"]_vars

\* C7: when no zoom range is given, the tminz and tmaxz main schedules the
\* phases with are the ones open_input derives.
C7_ParentUsesDerivedZooms ==
    (~opts.zoom.given /\ pc \notin {"start", "join_metadata"}) =>
        (tminz = OpenTminz(raster, opts) /\ tmaxz = OpenTmaxz(raster, opts))

C9_SchemaCreatedOnceBeforeWorkers ==
    (~opts.resume /\ procs # <<>>) => (created = 1 /\ meta = "exited" /\ schema)

\* C10: a run that reaches its end on an archive with its tables leaves both
\* unique indexes and journal_mode DELETE, and no worker is running then.
C10_IndexesAtEnd ==
    (pc = "done" /\ schema) =>
        (index_name /\ tile_index /\ journal_mode = "DELETE" /\ active_children = {})

\* C11: once the unique index on tiles exists, no two rows of the tiles table
\* have the same (zoom_level, tile_column, tile_row), and the index stays.
C11_UniqueAfterIndex ==
    /\ [](tile_index => ~Duplicates(tiles))
    /\ [][tile_index => tile_index']_vars

\* C11 witness: a later command has inserted a tile into the indexed archive
C11_Witness ==
    /\ tile_index
    /\ run > 1
    /\ inserted # EmptyBag
    /\ \E i \in 1..Len(procs) : procs[i].st = "crashed"

\* C12: after the metadata child has ended with a fatal error, main starts
\* no tile worker and the run does not end as a successful one.
C12_FatalChildErrorStopsRun ==
    meta = "failed" => (procs = <<>> /\ pc # "done")

\* C13: once stop() has been called, no worker executes an insert for a tile
\* it starts afterwards (a tile step starts and ends one tile).
C13_NoInsertAfterStop ==
    [][stopped => inserted' = inserted]_vars

\* C14: in a run without resume, once the metadata child has ended normally
\* or a tile row is in the table, the metadata table has a row for each of
\* the eleven names.
C14_MetadataRowsBeforeTiles ==
    (~opts.resume /\ (meta = "exited" \/ tiles # EmptyBag)) => MetadataNames \subseteq metadata

\* C15: the zoom range __init__ takes from --zoom MIN-MAX is clamped into
\* 0..MAXZOOMLEVEL-1 and ordered: 0 <= tminz <= tmaxz <= 31.
C15_UserZoomClamped ==
    plan.fn = "zoom" =>
        (0 <= plan.ret[1] /\ plan.ret[1] <= plan.ret[2] /\ plan.ret[2] <= MAXZOOMLEVEL - 1)

\* the tiles <<tx, ty>> the loops over the range rg visit
Visited(rg) == {LoopTile(rg, ti) : ti \in 1..LoopCount(rg)}

\* C16: every row written (committed or in a worker's open transaction) is
\* inside the range of its zoom and inside the world, 0 <= tx, ty < 2^z; and
\* the tiles the loops visit over a geodetic range are inside
\* 0 <= tx < 2^(z+1), 0 <= ty < 2^z; whatever the raster extent.
C16_RowsInsideRange ==
    /\ \A r \in BagToSet(tiles) \cup
                UNION {{procs[i].pending[k] : k \in 1..Len(procs[i].pending)} :
                          i \in 1..Len(procs)} :
          /\ InRange(tminmax(raster, r[1]), r[2], r[3])
          /\ 0 <= r[2] /\ r[2] < Pow2(r[1])
          /\ 0 <= r[3] /\ r[3] < Pow2(r[1])
    /\ \A z \in 0..MaxZoom : \A t \in Visited(tminmaxGeodetic(raster, z)) :
          /\ 0 <= t[1] /\ t[1] < Pow2(z + 1)
          /\ 0 <= t[2] /\ t[2] < Pow2(z)

\* C16 witness: base and overview rows of a raster that reaches beyond the
\* world extent
C16_Witness ==
    /\ raster = Edge
    /\ \E r \in BagToSet(tiles) : r[1] = MaxZoom
    /\ \E r \in BagToSet(tiles) : r[1] < MaxZoom

\* C17: every entry <<tminx, tminy, tmaxx, tmaxy>> of the mercator table
\* satisfies 0 <= tminx <= tmaxx < 2^z and 0 <= tminy <= tmaxy < 2^z.
C17_PlannerRangeOrdered ==
    plan.fn = "tminmax" =>
        /\ 0 <= plan.ret[1] /\ plan.ret[1] <= plan.ret[3] /\ plan.ret[3] < Pow2(plan.arg[1])
        /\ 0 <= plan.ret[2] /\ plan.ret[2] <= plan.ret[4] /\ plan.ret[4] < Pow2(plan.arg[1])

\* C18: the tile of the minimum corner of TileBounds(tx, ty, z) is (tx, ty).
C18_RoundTripTile ==
    plan.fn = "roundtrip" => plan.ret = <<plan.arg[2], plan.arg[3]>>

\* C19: for every positive pixel size ZoomForPixelSize returns a zoom in
\* 0..MAXZOOMLEVEL-1 that is the largest z with Resolution(z) >= p, or 0 when
\* p exceeds Resolution(0); it never returns None.
C19_ZoomForPixelSizeTotal ==
    plan.fn = "ZoomForPixelSize" =>
        /\ plan.ret[1] \in 0..(MAXZOOMLEVEL - 1)
        /\ IF ExceedsResolution(plan.arg, 0)
           THEN plan.ret[1] = 0
           ELSE /\ ~ExceedsResolution(plan.arg, plan.ret[1])
                /\ ExceedsResolution(plan.arg, plan.ret[1] + 1)

\* C20: the default tmaxz of a raster of pixel size source_px satisfies
\* Resolution(tmaxz) >= source_px > Resolution(tmaxz + 1).
C20_DefaultTmaxzBrackets ==
    plan.fn = "tmaxz" =>
        /\ plan.ret[1] # None
        /\ ~ExceedsResolution(plan.arg, plan.ret[1])
        /\ ExceedsResolution(plan.arg, plan.ret[1] + 1)

\* C21: the windows returned by geo_query satisfy 0 <= rx, rx + rxsize <= W,
\* 0 <= ry, ry + rysize <= H, 0 <= wx, wx + wxsize <= Q, 0 <= wy and
\* wy + wysize <= Q, also for rectangles across or beyond a raster edge.
C21_WindowsInsideBounds ==
    plan.fn = "geo_query" =>
        LET rb == plan.ret[1]
            wb == plan.ret[2]
            Q  == plan.arg[5]
        IN  /\ 0 <= rb[1] /\ rb[1] + rb[3] <= Small.xsize
            /\ 0 <= rb[2] /\ rb[2] + rb[4] <= Small.ysize
            /\ 0 <= wb[1] /\ wb[1] + wb[3] <= Q
            /\ 0 <= wb[2] /\ wb[2] + wb[4] <= Q

\* a rectangle across the left and the bottom edge of the raster, and clamped
C21_Witness ==
    /\ plan.fn = "geo_query"
    /\ plan.arg[1][1] < Small.gt0 * 4
    /\ plan.arg[4][1] < Small.gt3 * 4 - 2 * Small.ysize
    /\ plan.ret[2][1] > 0
    /\ plan.ret[2][4] < plan.arg[5]
    /\ plan.ret[1][3] > 0
    /\ plan.ret[1][4] > 0

\* the rectangle of the call lies inside the raster
QueryInside ==
    /\ plan.arg[1][1] >= 4 * Small.gt0
    /\ plan.arg[3][1] <= 4 * Small.gt0 + 2 * Small.xsize
    /\ plan.arg[2][1] <= 4 * Small.gt3
    /\ plan.arg[4][1] >= 4 * Small.gt3 - 2 * Small.ysize

\* C22: for a rectangle inside the raster and Q > 0 the write window is
\* (0, 0, Q, Q) and the read window is the pixel extent of the rectangle:
\* its upper left pixel and its width and height rounded to whole pixels.
C22_InsideQueryUnclamped ==
    (plan.fn = "geo_query" /\ QueryInside) =>
        /\ plan.ret[2] = <<0, 0, plan.arg[5], plan.arg[5]>>
        /\ plan.ret[1][1] = (plan.arg[1][1] - 4 * Small.gt0) \div 2
        /\ plan.ret[1][2] = (4 * Small.gt3 - plan.arg[2][1]) \div 2
        /\ plan.ret[1][3] = (plan.arg[3][1] - plan.arg[1][1] + 1) \div 2
        /\ plan.ret[1][4] = (plan.arg[2][1] - plan.arg[4][1] + 1) \div 2

\* a rectangle inside the raster that ends on its right and bottom edges and
\* starts half a pixel off the pixel grid
C22_Witness ==
    /\ plan.fn = "geo_query"
    /\ QueryInside
    /\ plan.arg[3][1] = 4 * Small.gt0 + 2 * Small.xsize
    /\ plan.arg[4][1] = 4 * Small.gt3 - 2 * Small.ysize
    /\ plan.arg[1][1] % 2 = 1
    /\ plan.arg[2][1] % 2 = 1

\* C23: for every parent (tx, ty) and child (cx, cy) the X offset is
\* (cx - 2tx) * tilesize and the Y offset is 0 iff cy - 2ty = 1 and tilesize
\* otherwise, so the four children fall on four distinct quadrants.
C23_QuadrantPlacement ==
    plan.fn = "tilepos" =>
        /\ \A d \in DOMAIN plan.ret :
              plan.ret[d] = <<d[1] * tilesize, IF d[2] = 1 THEN 0 ELSE tilesize>>
        /\ \A d, e \in DOMAIN plan.ret : plan.ret[d] = plan.ret[e] => d = e

\* the parent at the origin, where the code takes its separate branches
C23_Witness == plan.fn = "tilepos" /\ plan.arg = <<0, 0>> /\ plan.ret[<<1, 1>>] = <<tilesize, 0>>

\* C24: a run with resampling 'antialias' on a new archive that reaches its
\* end has a row for every tile of the range of every zoom from tminz to
\* tmaxz, as a run with another resampling algorithm has.
C24_AntialiasInsertsTiles ==
    (opts.resampling = "antialias" /\ ~opts.verbose /\ pc = "done") =>
        \A z \in tminz..tmaxz : \A k \in RangeKeys(z) : RowCount(tiles, k[1], k[2], k[3]) >= 1

\* C25: the default zooms of open_input are zooms and satisfy tminz <= tmaxz,
\* for every raster size, also below one tile.
C25_DefaultZoomsOrdered ==
    plan.fn = "zooms" =>
        (plan.ret[1] # None /\ plan.ret[2] # None /\ plan.ret[1] <= plan.ret[2])

\* C26: the range of zoom z is exactly the set of parents
\* (floor(x / 2), floor(y / 2)) of the tiles of the range of zoom z + 1; so
\* every tile of the range of z has a child in the range of z + 1 and every
\* tile of the range of z + 1 has its parent in the range of z.
C26_RangesFormPyramid ==
    plan.fn = "pyramid" =>
        /\ RangeTiles(plan.ret[1]) =
              {<<c[1] \div 2, c[2] \div 2>> : c \in RangeTiles(plan.ret[2])}
        /\ \A t \in RangeTiles(plan.ret[1]) :
              \E c \in (2 * t[1] .. 2 * t[1] + 1) \X (2 * t[2] .. 2 * t[2] + 1) :
                 InRange(plan.ret[2], c[1], c[2])

\* a raster across the east edge of the world whose range grows with the zoom
C26_Witness ==
    /\ plan.fn = "pyramid"
    /\ plan.arg[2] = MaxZoom
    /\ plan.ret[2][3] = Pow2(MaxZoom + 1) - 1
    /\ plan.ret[2][1] > 0
    /\ plan.arg[1].gt0 + 6 > originShift
    /\ Cardinality(RangeTiles(plan.ret[2])) > Cardinality(RangeTiles(plan.ret[1]))
    /\ Cardinality(RangeTiles(plan.ret[1])) > 1

\* C27: for every tile the base phase enumerates, geo_query returns strictly
\* positive rxsize, rysize, wxsize and wysize.
C27_BaseQueryPositive ==
    plan.fn = "base_query" =>
        /\ plan.ret[1][3] > 0 /\ plan.ret[1][4] > 0
        /\ plan.ret[2][3] > 0 /\ plan.ret[2][4] > 0

\* C28: a run that reaches its end with no worker failing leaves the rows the
\* same command without -v leaves, and every row a worker inserted is among
\* the committed rows once that worker has closed its connection.
C28_VerboseLeavesSameRows ==
    /\ (pc = "done" /\ NoCrash) =>
          tiles = OneWorkerTiles(raster, [opts EXCEPT !.verbose = FALSE])
    /\ (active_children = {} /\ NoCrash) =>
          \A k \in BagToSet(inserted) : RowCount(tiles, k[1], k[2], k[3]) >= CopiesIn(k, inserted)

\* C29: in the raster profile a base tile that lies inside the image has the
\* write window (0, 0) with wxsize = wysize = the side of the buffer it is
\* written into: the tile when tilesize = querysize, else the query buffer.
C29_RasterTileFillsBuffer ==
    (/\ plan.fn = "raster_tile"
     /\ plan.ret[1][1] + plan.ret[1][3] <= plan.arg[1]
     /\ plan.ret[1][2] >= 0
     /\ plan.ret[1][3] = tsize(plan.arg[1], plan.arg[2], plan.arg[4])
     /\ plan.ret[1][4] = tsize(plan.arg[1], plan.arg[2], plan.arg[4])) =>
        \* plan.ret[3] is querysize: the tile is written directly iff it is tilesize
        plan.ret[2] = <<0, 0, plan.ret[3], plan.ret[3]>>

\* C30: under fair scheduling a command with a user-supplied zoom range
\* reaches the final index-creation step of main: main leaves every wait
\* loop, whether its workers exit normally or by crashing.
C30_MainReachesIndex ==
    (opts.zoom.given /\ pc = "start") ~> (pc = "index")

\* main at the index step after a worker of the run has crashed
C30_Witness ==
    /\ opts.zoom.given
    /\ opts.zoom.min < opts.zoom.max
    /\ pc = "index"
    /\ \E i \in 1..Len(procs) : procs[i].st = "crashed"
    /\ \E i \in 1..Len(procs) : procs[i].kind = "overview" /\ procs[i].st = "exited"

====
